---- MODULE Spec2Model ----
(***************************************************************************)
(* Shape-level model of nets/resnet.py: the residual blocks (Block,       *)
(* Gblock, Dblock), the generators (ResnetGenerator128/32) and the        *)
(* discriminators (ResnetDiscriminator128/32).  A tensor is modelled by   *)
(* its shape (a sequence of dimensions), a layer by its constructor       *)
(* arguments, its initialisation and whether it is wrapped in             *)
(* SpectralNorm.  A forward call is executed statement by statement.      *)
(***************************************************************************)
EXTENDS Integers, Sequences, FiniteSets, TLC

VARIABLES
    net,          \* the constructed module (self)
    training,     \* torch.nn.Module.training
    input,        \* the argument `input` of the outermost forward call
    y,            \* the argument `y` of the forward call (NoLabel = None)
    pc,           \* the statement about to be executed
    bi,           \* index of the block the pipeline is at (1-based)
    px,           \* the pipeline's local `x` (forward of the generator/discriminator)
    block_input,  \* the running block's argument `input`
    x,            \* the running block's local `x` (main path)
    x_r,          \* the running block's local `x_r` (skip path)
    out,          \* the value the outermost forward call returned
    trace,        \* the layers the running block call has applied, in order
    err           \* "none", or the exception that ended the call

vars == <<net, training, input, y, pc, bi, px, block_input, x, x_r, out, trace, err>>

----------------------------------------------------------------------------
(* Bounds of the model *)

MaxCh == 2
MaxZ == 2
MaxCategories == 2
MaxN == 2
MaxBottomWidth == 4
MaxWidth == 5

(* Constants of the program *)

ImageChannels == 3
DefaultBottomWidth == 4
PoolFactor == 2
ScaleFactor == 2
DefaultKernel == 3
DefaultStride == 1
DefaultPadding == 1

KernelSizes == {1, DefaultKernel}
Strides == {DefaultStride, 2}
Paddings == {0, DefaultPadding}
ImageSizes == {4, 32, 128}

----------------------------------------------------------------------------
(* Layers *)

Layer(kind, a, b, k, s, p, init) ==
    [kind |-> kind, cin |-> a, cout |-> b, k |-> k, s |-> s, p |-> p,
     sn |-> FALSE, init |-> init]

NoLayer == Layer("None", 0, 0, 0, 0, 0, "none")

\* torch.nn.Conv2d(cin, cout, kernel_size, stride, padding), then
\* xavier_uniform_ with the given gain ("default" when none is applied)
Conv2d(a, b, k, s, p, init) == Layer("Conv2d", a, b, k, s, p, init)

Linear(a, b, init) == Layer("Linear", a, b, 0, 0, 0, init)

Embedding(n, dim, init) == Layer("Embedding", n, dim, 0, 0, 0, init)

BatchNorm2d(num_features) == Layer("BatchNorm2d", num_features, num_features, 0, 0, 0, "default")

CategoricalBatchNorm(num_features, num_categories) ==
    Layer("CategoricalBatchNorm", num_features, num_categories, 0, 0, 0, "default")

SpectralNorm(layer) == [layer EXCEPT !.sn = TRUE]

\* Python truthiness of an attribute that is None or a module
Present(layer) == layer.kind # "None"

----------------------------------------------------------------------------
(* Labels: None, or an integer tensor of shape (len,) whose largest entry is cls *)

NoLabel == [len |-> 0, cls |-> 0]

Label(len, cls) == [len |-> len, cls |-> cls]

----------------------------------------------------------------------------
(* Results of tensor operations: a shape, or the exception raised *)

Ok(shape) == [ok |-> TRUE, shape |-> shape, err |-> "none"]

Raise(e) == [ok |-> FALSE, shape |-> <<>>, err |-> e]

Max(a, b) == IF a >= b THEN a ELSE b

\* a shape left-padded with 1s to rank n (broadcasting aligns from the right)
PadTo(s, n) == [i \in 1..n |-> IF i <= n - Len(s) THEN 1 ELSE s[i - (n - Len(s))]]

Broadcastable(a, b) ==
    LET n == Max(Len(a), Len(b))
        pa == PadTo(a, n)
        pb == PadTo(b, n)
    IN  \A i \in 1..n : pa[i] = pb[i] \/ pa[i] = 1 \/ pb[i] = 1

BroadcastShape(a, b) ==
    LET n == Max(Len(a), Len(b))
        pa == PadTo(a, n)
        pb == PadTo(b, n)
    IN  [i \in 1..n |-> IF pa[i] = 1 THEN pb[i] ELSE pa[i]]

\* a + b and a * b of torch tensors
TorchAdd(a, b) ==
    IF Broadcastable(a, b) THEN Ok(BroadcastShape(a, b)) ELSE Raise("ShapeError")

\* a += b: the sum must have a's own shape
InplaceAdd(a, b) ==
    IF Broadcastable(a, b) /\ BroadcastShape(a, b) = a THEN Ok(a) ELSE Raise("ShapeError")

ConvOut(w, k, s, p) == ((w + 2 * p - k) \div s) + 1

Conv2dShape(l, t) ==
    IF Len(t) # 4 THEN Raise("ShapeError")
    ELSE IF t[2] # l.cin THEN Raise("ShapeError")
    ELSE IF t[3] + 2 * l.p < l.k \/ t[4] + 2 * l.p < l.k THEN Raise("ShapeError")
    ELSE Ok(<<t[1], l.cout, ConvOut(t[3], l.k, l.s, l.p), ConvOut(t[4], l.k, l.s, l.p)>>)

avg_pool2d(t) ==
    IF Len(t) # 4 THEN Raise("ShapeError")
    ELSE IF t[3] \div PoolFactor = 0 \/ t[4] \div PoolFactor = 0 THEN Raise("ShapeError")
    ELSE Ok(<<t[1], t[2], t[3] \div PoolFactor, t[4] \div PoolFactor>>)

\* a resize that leaves the size as it is
up_NoScale(t) ==
    IF Len(t) # 4 THEN Raise("ShapeError") ELSE Ok(t)

up(t) ==
    IF Len(t) # 4 THEN Raise("ShapeError")
    ELSE Ok(<<t[1], t[2], t[3] * ScaleFactor, t[4] * ScaleFactor>>)

\* ReLU and Tanh are elementwise
activate(t) == Ok(t)

BatchNorm2dShape(l, t) ==
    IF Len(t) # 4 THEN Raise("ShapeError")
    ELSE IF t[2] # l.cin THEN Raise("ShapeError")
    ELSE IF training /\ t[1] * t[3] * t[4] = 1 THEN Raise("ValueError")
    ELSE Ok(t)

CategoricalBatchNormShape(l, t, label) ==
    IF label = NoLabel THEN Raise("MissingConditioning")
    ELSE IF Len(t) # 4 THEN Raise("ShapeError")
    ELSE IF t[2] # l.cin THEN Raise("ShapeError")
    ELSE Ok(t)

LinearShape(l, t) ==
    IF Len(t) = 0 THEN Raise("ShapeError")
    ELSE IF t[Len(t)] # l.cin THEN Raise("ShapeError")
    ELSE Ok([t EXCEPT ![Len(t)] = l.cout])

EmbeddingShape(l, label) ==
    IF label.cls >= l.cin THEN Raise("IndexError")
    ELSE Ok(<<label.len, l.cout>>)

\* x.view(x.shape[0], -1, bottom_width, bottom_width)
View(t, bw) ==
    IF Len(t) # 2 THEN Raise("ShapeError")
    ELSE IF bw = 0 THEN Raise("ShapeError")
    ELSE IF t[2] % (bw * bw) # 0 THEN Raise("ShapeError")
    ELSE Ok(<<t[1], t[2] \div (bw * bw), bw, bw>>)

\* torch.sum(x, (2, 3))
SumSpatial(t) ==
    IF Len(t) # 4 THEN Raise("ShapeError") ELSE Ok(<<t[1], t[2]>>)

\* torch.sum(t, dim=1, keepdim=True)
SumDim1Keep(t) ==
    IF Len(t) < 2 THEN Raise("ShapeError") ELSE Ok([t EXCEPT ![2] = 1])

----------------------------------------------------------------------------
(* Construction: the blocks *)

\* a Block.__init__ that builds the skip convolution on a channel change only
BlockInit_ChannelChangeOnly(in_channels, out_channels, hidden_channels, kernel_size, stride, padding, optimized) ==
    LET hidden == IF hidden_channels = 0 THEN out_channels ELSE hidden_channels
    IN  [cls |-> "Block",
         in_channels |-> in_channels,
         out_channels |-> out_channels,
         hidden_channels |-> hidden,
         optimized |-> optimized,
         upsample |-> FALSE,
         downsample |-> FALSE,
         num_categories |-> 0,
         conv1 |-> Conv2d(in_channels, hidden, kernel_size, stride, padding, "xavier_sqrt2"),
         conv2 |-> Conv2d(hidden, out_channels, kernel_size, stride, padding, "xavier_sqrt2"),
         s_conv |-> IF in_channels # out_channels
                    THEN Conv2d(in_channels, out_channels, 1, 1, 0, "xavier_1")
                    ELSE NoLayer,
         bn1 |-> NoLayer,
         bn2 |-> NoLayer]

\* Block.__init__; hidden_channels = 0 stands for None (both are falsy)
BlockInit(in_channels, out_channels, hidden_channels, kernel_size, stride, padding, optimized) ==
    LET hidden == IF hidden_channels = 0 THEN out_channels ELSE hidden_channels
    IN  [cls |-> "Block",
         in_channels |-> in_channels,
         out_channels |-> out_channels,
         hidden_channels |-> hidden,
         optimized |-> optimized,
         upsample |-> FALSE,
         downsample |-> FALSE,
         num_categories |-> 0,
         conv1 |-> Conv2d(in_channels, hidden, kernel_size, stride, padding, "xavier_sqrt2"),
         conv2 |-> Conv2d(hidden, out_channels, kernel_size, stride, padding, "xavier_sqrt2"),
         s_conv |-> IF in_channels # out_channels \/ optimized
                    THEN Conv2d(in_channels, out_channels, 1, 1, 0, "xavier_1")
                    ELSE NoLayer,
         bn1 |-> NoLayer,
         bn2 |-> NoLayer]

\* Gblock.batch_norm; num_categories = 0 stands for None (both are falsy)
batch_norm(num_features, num_categories) ==
    IF num_categories = 0 THEN BatchNorm2d(num_features)
    ELSE CategoricalBatchNorm(num_features, num_categories)

\* Gblock.__init__
GblockInit(in_channels, out_channels, hidden_channels, num_categories, kernel_size, stride, padding, upsample) ==
    LET b == BlockInit(in_channels, out_channels, hidden_channels,
                       kernel_size, stride, padding, FALSE)
    IN  [b EXCEPT !.cls = "Gblock",
                  !.upsample = upsample,
                  !.num_categories = num_categories,
                  !.bn1 = batch_norm(b.in_channels, num_categories),
                  !.bn2 = batch_norm(b.hidden_channels, num_categories)]

\* Dblock.__init__
DblockInit(in_channels, out_channels, hidden_channels, kernel_size, stride, padding, downsample) ==
    LET b == BlockInit(in_channels, out_channels, hidden_channels,
                       kernel_size, stride, padding, FALSE)
    IN  [b EXCEPT !.cls = "Dblock",
                  !.downsample = downsample,
                  !.conv1 = SpectralNorm(b.conv1),
                  !.conv2 = SpectralNorm(b.conv2),
                  !.s_conv = IF Present(b.s_conv) THEN SpectralNorm(b.s_conv) ELSE b.s_conv]

\* a Gblock / Dblock built with the default kernel_size=3, stride=1, padding=1
G(in_channels, out_channels, num_categories) ==
    GblockInit(in_channels, out_channels, 0, num_categories,
               DefaultKernel, DefaultStride, DefaultPadding, TRUE)

D(in_channels, out_channels) ==
    DblockInit(in_channels, out_channels, 0,
               DefaultKernel, DefaultStride, DefaultPadding, TRUE)

----------------------------------------------------------------------------
(* Construction: the generators and the discriminators *)

Module(cls, ch, z_dim, n_categories, bottom_width) ==
    [cls |-> cls, ch |-> ch, z_dim |-> z_dim, n_categories |-> n_categories,
     bottom_width |-> bottom_width, blocks |-> <<>>, dense |-> NoLayer,
     final_bn |-> NoLayer, final_conv |-> NoLayer, l |-> NoLayer, l_y |-> NoLayer]

\* ResnetGenerator.__init__ and final_block
ResnetGeneratorInit(cls, ch, z_dim, n_categories, bottom_width) ==
    [Module(cls, ch, z_dim, n_categories, bottom_width) EXCEPT
        !.final_bn = BatchNorm2d(ch),
        !.final_conv = Conv2d(ch, ImageChannels, 3, 1, 1, "xavier_1")]

\* a 128 pipeline that lost its last block
G128Blocks_FourBlocks(ch, n_categories) ==
    << G(ch * 16, ch * 16, n_categories),
       G(ch * 16, ch * 8, n_categories),
       G(ch * 8, ch * 4, n_categories),
       G(ch * 4, ch, n_categories) >>

G128Blocks(ch, n_categories) ==
    << G(ch * 16, ch * 16, n_categories),
       G(ch * 16, ch * 8, n_categories),
       G(ch * 8, ch * 4, n_categories),
       G(ch * 4, ch * 2, n_categories),
       G(ch * 2, ch, n_categories) >>

ResnetGenerator128Init(ch, z_dim, n_categories, bottom_width) ==
    [ResnetGeneratorInit("ResnetGenerator128", ch, z_dim, n_categories, bottom_width) EXCEPT
        !.dense = Linear(z_dim, bottom_width * bottom_width * ch * 16, "xavier_1"),
        !.blocks = G128Blocks(ch, n_categories)]

G32Blocks(ch, n_categories) ==
    << G(ch, ch, n_categories), G(ch, ch, n_categories), G(ch, ch, n_categories) >>

ResnetGenerator32Init(ch, z_dim, n_categories, bottom_width) ==
    [ResnetGeneratorInit("ResnetGenerator32", ch, z_dim, n_categories, bottom_width) EXCEPT
        !.dense = Linear(z_dim, bottom_width * bottom_width * ch, "xavier_1"),
        !.blocks = G32Blocks(ch, n_categories)]

\* ResnetDiscriminator.__init__: the stem
Stem(ch) ==
    BlockInit(ImageChannels, ch, 0, DefaultKernel, DefaultStride, DefaultPadding, TRUE)

ResnetDiscriminatorInit(cls, ch, n_categories) ==
    [Module(cls, ch, 0, n_categories, 0) EXCEPT !.blocks = <<Stem(ch)>>]

\* a 128 pipeline whose fourth block does not widen to what the fifth consumes
D128Blocks_BrokenChain(ch) ==
    << D(ch, ch * 2), D(ch * 2, ch * 4), D(ch * 4, ch * 8), D(ch * 8, ch * 8),
       D(ch * 16, ch * 16) >>

D128Blocks(ch) ==
    << D(ch, ch * 2), D(ch * 2, ch * 4), D(ch * 4, ch * 8), D(ch * 8, ch * 16),
       D(ch * 16, ch * 16) >>

ResnetDiscriminator128Init(ch, n_categories) ==
    LET m == ResnetDiscriminatorInit("ResnetDiscriminator128", ch, n_categories)
    IN  [m EXCEPT
            !.blocks = m.blocks \o D128Blocks(ch),
            !.l = SpectralNorm(Linear(ch * 16, 1, "xavier_1")),
            !.l_y = IF n_categories > 0
                    THEN SpectralNorm(Embedding(n_categories, ch * 16, "xavier_1"))
                    ELSE NoLayer]

D32Blocks(ch) == << D(ch, ch), D(ch, ch), D(ch, ch) >>

ResnetDiscriminator32Init(ch, n_categories) ==
    LET m == ResnetDiscriminatorInit("ResnetDiscriminator32", ch, n_categories)
    IN  [m EXCEPT
            !.blocks = m.blocks \o D32Blocks(ch),
            !.l = SpectralNorm(Linear(ch, 1, "default")),
            !.l_y = IF n_categories > 0
                    THEN SpectralNorm(Embedding(n_categories, ch, "default"))
                    ELSE NoLayer]

\* a block called on its own
Standalone(block) == [Module(block.cls, 0, 0, block.num_categories, 0) EXCEPT !.blocks = <<block>>]

IsGenerator == net.cls \in {"ResnetGenerator128", "ResnetGenerator32"}
IsDiscriminator == net.cls \in {"ResnetDiscriminator128", "ResnetDiscriminator32"}
IsBlock == net.cls \in {"Block", "Gblock", "Dblock"}

----------------------------------------------------------------------------
(* Initial states: a constructed module and the arguments of one forward call *)

Labels == {NoLabel} \cup {Label(len, cls) : len \in 1..MaxN, cls \in 0..MaxCategories}

Idle ==
    /\ bi = 1
    /\ block_input = <<>>
    /\ x = <<>>
    /\ x_r = <<>>
    /\ out = <<>>
    /\ trace = <<>>
    /\ err = "none"

InitGen ==
    /\ \E ch \in 1..MaxCh, z_dim \in 1..MaxZ, n_categories \in 0..MaxCategories,
          bottom_width \in 1..MaxBottomWidth :
          net \in {ResnetGenerator128Init(ch, z_dim, n_categories, bottom_width),
                   ResnetGenerator32Init(ch, z_dim, n_categories, bottom_width)}
    /\ training \in BOOLEAN
    /\ \E n \in 1..MaxN, z \in 1..MaxZ :
          /\ input = <<n, z>>
          /\ y \in {NoLabel, Label(n, 0)}
    /\ px = <<>>
    /\ pc = "dense"
    /\ Idle

InitDisc ==
    /\ \E ch \in 1..MaxCh, n_categories \in 0..MaxCategories :
          net \in {ResnetDiscriminator128Init(ch, n_categories),
                   ResnetDiscriminator32Init(ch, n_categories)}
    /\ training = TRUE
    /\ \E n \in 1..MaxN, c \in {1, ImageChannels}, h \in ImageSizes, w \in ImageSizes :
          input = <<n, c, h, w>>
    /\ y \in Labels
    /\ px = input
    /\ pc = "blocks"
    /\ Idle

BlockArgs ==
    [in_channels : 1..MaxCh, out_channels : 1..MaxCh, hidden_channels : 0..MaxCh,
     kernel_size : KernelSizes, stride : Strides, padding : Paddings, flag : BOOLEAN]

InitBlock ==
    /\ \E a \in BlockArgs, num_categories \in {0, MaxCategories} :
          net \in {Standalone(BlockInit(a.in_channels, a.out_channels, a.hidden_channels,
                                        a.kernel_size, a.stride, a.padding, a.flag)),
                   Standalone(GblockInit(a.in_channels, a.out_channels, a.hidden_channels,
                                         num_categories, a.kernel_size, a.stride, a.padding,
                                         a.flag)),
                   Standalone(DblockInit(a.in_channels, a.out_channels, a.hidden_channels,
                                         a.kernel_size, a.stride, a.padding, a.flag))}
    /\ training \in BOOLEAN
    /\ \E n \in 1..MaxN, c \in 1..MaxCh, h \in 1..MaxWidth :
          /\ input \in {<<n, c, h, h>>, <<n, c, h, MaxWidth>>}
          /\ y \in {NoLabel, Label(n, 0)}
    /\ px = input
    /\ pc = "blocks"
    /\ Idle

Init == InitGen \/ InitDisc \/ InitBlock

----------------------------------------------------------------------------
(* Statements *)

Frame == UNCHANGED <<net, training, input, y, bi, block_input>>

\* a statement of a block that assigns its local x
MainStep(from, to, r, tag) ==
    /\ pc = from
    /\ Frame
    /\ UNCHANGED <<px, x_r, out>>
    /\ IF r.ok
       THEN /\ x' = r.shape
            /\ pc' = to
            /\ trace' = Append(trace, tag)
            /\ err' = err
       ELSE /\ pc' = "failed"
            /\ err' = r.err
            /\ UNCHANGED <<x, trace>>

\* a statement of a block that assigns its local x_r when cond holds
SkipStep(from, to, cond, r, tag) ==
    /\ pc = from
    /\ Frame
    /\ UNCHANGED <<px, x, out>>
    /\ IF ~cond
       THEN /\ pc' = to
            /\ UNCHANGED <<x_r, trace, err>>
       ELSE IF r.ok
       THEN /\ x_r' = r.shape
            /\ pc' = to
            /\ trace' = Append(trace, tag)
            /\ err' = err
       ELSE /\ pc' = "failed"
            /\ err' = r.err
            /\ UNCHANGED <<x_r, trace>>

\* the two statements that resize x and then x_r when cond holds
ResizeStep(from, to, cond, rx, rr, tag) ==
    /\ pc = from
    /\ Frame
    /\ UNCHANGED <<px, out>>
    /\ IF ~cond
       THEN /\ pc' = to
            /\ UNCHANGED <<x, x_r, trace, err>>
       ELSE IF rx.ok /\ rr.ok
       THEN /\ x' = rx.shape
            /\ x_r' = rr.shape
            /\ pc' = to
            /\ trace' = Append(trace, tag)
            /\ err' = err
       ELSE /\ pc' = "failed"
            /\ err' = (IF rx.ok THEN rr.err ELSE rx.err)
            /\ UNCHANGED <<x, x_r, trace>>

\* return x + x_r
AddStep(from) ==
    /\ pc = from
    /\ Frame
    /\ UNCHANGED <<x, x_r, out>>
    /\ LET r == TorchAdd(x, x_r)
       IN  IF r.ok
           THEN /\ px' = r.shape
                /\ pc' = "ret"
                /\ trace' = Append(trace, "add")
                /\ err' = err
           ELSE /\ pc' = "failed"
                /\ err' = r.err
                /\ UNCHANGED <<px, trace>>

\* a statement of the generator's or the discriminator's forward that assigns x
PipeStep(from, to, r) ==
    /\ pc = from
    /\ Frame
    /\ UNCHANGED <<x, x_r, out, trace>>
    /\ IF r.ok
       THEN /\ px' = r.shape
            /\ pc' = to
            /\ err' = err
       ELSE /\ pc' = "failed"
            /\ err' = r.err
            /\ px' = px

cur == net.blocks[bi]

FirstStatement(cls) ==
    CASE cls = "Block" -> "b_conv1"
      [] cls = "Gblock" -> "g_bn1"
      [] cls = "Dblock" -> "d_s_conv"

\* the pipeline calls its next block: x = block(x, y); the block binds its
\* argument and runs its first assignments (x = input, x_r = input)
CallBlock ==
    /\ pc = "blocks"
    /\ bi <= Len(net.blocks)
    /\ block_input' = px
    /\ x' = IF cur.cls = "Gblock" THEN px ELSE <<>>
    /\ x_r' = px
    /\ trace' = <<>>
    /\ pc' = FirstStatement(cur.cls)
    /\ UNCHANGED <<net, training, input, y, bi, px, out, err>>

\* the block call returns to the pipeline
BlockReturn ==
    /\ pc = "ret"
    /\ pc' = "blocks"
    /\ bi' = bi + 1
    /\ UNCHANGED <<net, training, input, y, px, block_input, x, x_r, out, trace, err>>

(* Block.forward *)

Block_conv1 == MainStep("b_conv1", "b_activate", Conv2dShape(cur.conv1, block_input), "conv1")

Block_activate == MainStep("b_activate", "b_conv2", activate(x), "activate")

Block_conv2 == MainStep("b_conv2", "b_pool", Conv2dShape(cur.conv2, x), "conv2")

Block_pool == ResizeStep("b_pool", "b_s_conv", cur.optimized, avg_pool2d(x), avg_pool2d(x_r), "avg_pool2d")

Block_s_conv == SkipStep("b_s_conv", "b_add", Present(cur.s_conv), Conv2dShape(cur.s_conv, x_r), "s_conv")

Block_add == AddStep("b_add")

(* Gblock.forward *)

\* a normalisation call that never hands the label on
Norm_DropLabel(bn, t) ==
    IF Len(t) # 4 THEN Raise("ShapeError")
    ELSE IF t[2] # bn.cin THEN Raise("ShapeError")
    ELSE Ok(t)

Norm(bn, t) ==
    IF cur.num_categories # 0 THEN CategoricalBatchNormShape(bn, t, y)
    ELSE BatchNorm2dShape(bn, t)

Gblock_bn1 == MainStep("g_bn1", "g_activate1", Norm(cur.bn1, x), "bn1")

Gblock_activate1 == MainStep("g_activate1", "g_up", activate(x), "activate")

Gblock_up == ResizeStep("g_up", "g_conv1", cur.upsample, up(x), up(x_r), "up")

Gblock_conv1 == MainStep("g_conv1", "g_bn2", Conv2dShape(cur.conv1, x), "conv1")

Gblock_bn2 == MainStep("g_bn2", "g_activate2", Norm(cur.bn2, x), "bn2")

Gblock_activate2 == MainStep("g_activate2", "g_conv2", activate(x), "activate")

Gblock_conv2 == MainStep("g_conv2", "g_s_conv", Conv2dShape(cur.conv2, x), "conv2")

Gblock_s_conv == SkipStep("g_s_conv", "g_add", Present(cur.s_conv), Conv2dShape(cur.s_conv, x_r), "s_conv")

Gblock_add == AddStep("g_add")

(* Dblock.forward *)

Dblock_s_conv == SkipStep("d_s_conv", "d_activate1", Present(cur.s_conv), Conv2dShape(cur.s_conv, x_r), "s_conv")

Dblock_activate1 == MainStep("d_activate1", "d_conv1", activate(block_input), "activate")

Dblock_conv1 == MainStep("d_conv1", "d_activate2", Conv2dShape(cur.conv1, x), "conv1")

Dblock_activate2 == MainStep("d_activate2", "d_conv2", activate(x), "activate")

Dblock_conv2 == MainStep("d_conv2", "d_pool", Conv2dShape(cur.conv2, x), "conv2")

Dblock_pool == ResizeStep("d_pool", "d_add", cur.downsample, avg_pool2d(x), avg_pool2d(x_r), "avg_pool2d")

Dblock_add == AddStep("d_add")

(* ResnetGenerator.forward *)

Gen_dense == PipeStep("dense", "view", LinearShape(net.dense, input))

Gen_view == PipeStep("view", "blocks", View(px, net.bottom_width))

Gen_blocks_done ==
    /\ pc = "blocks"
    /\ IsGenerator
    /\ bi > Len(net.blocks)
    /\ pc' = "final"
    /\ UNCHANGED <<net, training, input, y, bi, px, block_input, x, x_r, out, trace, err>>

\* self.final: BatchNorm2d, ReLU, Conv2d, Tanh
Final(t) ==
    LET normed == BatchNorm2dShape(net.final_bn, t)
        relu == IF normed.ok THEN activate(normed.shape) ELSE normed
        conv == IF relu.ok THEN Conv2dShape(net.final_conv, relu.shape) ELSE relu
    IN  IF conv.ok THEN activate(conv.shape) ELSE conv

Gen_final ==
    /\ pc = "final"
    /\ Frame
    /\ UNCHANGED <<x, x_r, trace>>
    /\ LET r == Final(px)
       IN  IF r.ok
           THEN /\ px' = r.shape
                /\ out' = r.shape
                /\ pc' = "done"
                /\ err' = err
           ELSE /\ pc' = "failed"
                /\ err' = r.err
                /\ UNCHANGED <<px, out>>

(* ResnetDiscriminator.forward *)

Disc_blocks_done ==
    /\ pc = "blocks"
    /\ IsDiscriminator
    /\ bi > Len(net.blocks)
    /\ pc' = "activate"
    /\ UNCHANGED <<net, training, input, y, bi, px, block_input, x, x_r, out, trace, err>>

Disc_activate == PipeStep("activate", "sum", activate(px))

Disc_sum == PipeStep("sum", "l", SumSpatial(px))

\* output = self.l(x)
Disc_l ==
    /\ pc = "l"
    /\ Frame
    /\ UNCHANGED <<px, x, x_r, trace>>
    /\ LET r == LinearShape(net.l, px)
       IN  IF r.ok
           THEN /\ out' = r.shape
                /\ pc' = "label"
                /\ err' = err
           ELSE /\ pc' = "failed"
                /\ err' = r.err
                /\ out' = out

\* a scoring head that skips the label term when no embedding was built
ConditionalScore_SkipWithoutEmbedding(m, label, feat, output) ==
    IF label = NoLabel \/ ~Present(m.l_y) THEN Ok(output)
    ELSE LET w_y == EmbeddingShape(m.l_y, label)
             prod == IF w_y.ok THEN TorchAdd(w_y.shape, feat) ELSE w_y
             term == IF prod.ok THEN SumDim1Keep(prod.shape) ELSE prod
         IN  IF term.ok THEN InplaceAdd(output, term.shape) ELSE term

\* if y is not None: w_y = self.l_y(y); output += torch.sum(w_y*x, dim=1, keepdim=True)
ConditionalScore(m, label, feat, output) ==
    IF label = NoLabel THEN Ok(output)
    ELSE IF ~Present(m.l_y) THEN Raise("AttributeError")
    ELSE LET w_y == EmbeddingShape(m.l_y, label)
             prod == IF w_y.ok THEN TorchAdd(w_y.shape, feat) ELSE w_y
             term == IF prod.ok THEN SumDim1Keep(prod.shape) ELSE prod
         IN  IF term.ok THEN InplaceAdd(output, term.shape) ELSE term

Disc_label ==
    /\ pc = "label"
    /\ Frame
    /\ UNCHANGED <<px, x, x_r, trace>>
    /\ LET r == ConditionalScore(net, y, px, out)
       IN  IF r.ok
           THEN /\ out' = r.shape
                /\ pc' = "done"
                /\ err' = err
           ELSE /\ pc' = "failed"
                /\ err' = r.err
                /\ out' = out

(* a block called on its own returns to its caller *)

Block_call_done ==
    /\ pc = "blocks"
    /\ IsBlock
    /\ bi > Len(net.blocks)
    /\ pc' = "done"
    /\ out' = px
    /\ UNCHANGED <<net, training, input, y, bi, px, block_input, x, x_r, trace, err>>

----------------------------------------------------------------------------
(* Specifications *)

BlockSteps ==
    \/ Block_conv1 \/ Block_activate \/ Block_conv2 \/ Block_pool \/ Block_s_conv \/ Block_add

GblockSteps ==
    \/ Gblock_bn1 \/ Gblock_activate1 \/ Gblock_up \/ Gblock_conv1 \/ Gblock_bn2
    \/ Gblock_activate2 \/ Gblock_conv2 \/ Gblock_s_conv \/ Gblock_add

DblockSteps ==
    \/ Dblock_s_conv \/ Dblock_activate1 \/ Dblock_conv1 \/ Dblock_activate2
    \/ Dblock_conv2 \/ Dblock_pool \/ Dblock_add

GenSteps == Gen_dense \/ Gen_view \/ Gen_blocks_done \/ Gen_final

DiscSteps == Disc_blocks_done \/ Disc_activate \/ Disc_sum \/ Disc_l \/ Disc_label

NextGen == CallBlock \/ BlockReturn \/ GblockSteps \/ GenSteps

NextDisc == CallBlock \/ BlockReturn \/ BlockSteps \/ DblockSteps \/ DiscSteps

NextBlock == CallBlock \/ BlockReturn \/ BlockSteps \/ GblockSteps \/ DblockSteps \/ Block_call_done

Next ==
    \/ CallBlock \/ BlockReturn \/ BlockSteps \/ GblockSteps \/ DblockSteps
    \/ GenSteps \/ DiscSteps \/ Block_call_done

\* every module and every call
Spec == Init /\ [][Next]_vars

\* the generators
SpecGen == InitGen /\ [][NextGen]_vars

\* the discriminators
SpecDisc == InitDisc /\ [][NextDisc]_vars

\* a single block called on its own
SpecBlock == InitBlock /\ [][NextBlock]_vars

InitModels == InitGen \/ InitDisc

NextModels ==
    \/ CallBlock \/ BlockReturn \/ BlockSteps \/ GblockSteps \/ DblockSteps
    \/ GenSteps \/ DiscSteps

\* the generators and the discriminators
SpecModels == InitModels /\ [][NextModels]_vars

----------------------------------------------------------------------------
(* Properties *)

Applied(tag) == \E i \in 1..Len(trace) : trace[i] = tag

\* the number of upsampling blocks among the first k blocks of the pipeline
UpCount(k) == Cardinality({i \in 1..k : net.blocks[i].upsample})

N == input[1]

Is128 == net.cls \in {"ResnetGenerator128", "ResnetDiscriminator128"}

Resolution == IF Is128 THEN 128 ELSE 32

\* the label fits the generator: one is given when the generator is class-conditional
GenCallFits ==
    /\ input = <<N, net.z_dim>>
    /\ net.n_categories # 0 => y # NoLabel
    /\ ~(training /\ net.n_categories = 0 /\ N * net.bottom_width * net.bottom_width = 1)

(* C1, as stated: every completed ResnetGenerator128.forward on (N, z_dim) returns a
   tensor of shape (N, 3, 128, 128), and every completed ResnetGenerator32.forward one
   of shape (N, 3, 32, 32), whatever ch, z_dim and bottom_width are. *)
C1_AsStated ==
    (IsGenerator /\ pc = "done") => out = <<N, ImageChannels, Resolution, Resolution>>

(* C1, amended: a generator forward on (N, z_dim) whose label fits its conditioning
   completes, and what it returns has shape (N, 3, 32 * bottom_width, 32 * bottom_width)
   for the 128 variant and (N, 3, 8 * bottom_width, 8 * bottom_width) for the 32
   variant; with bottom_width = 4 that is (N, 3, 128, 128) and (N, 3, 32, 32). *)
C1_ShapeByBottomWidth ==
    IsGenerator =>
        /\ pc = "done" =>
              LET width == net.bottom_width * (IF Is128 THEN 32 ELSE 8)
              IN  /\ out = <<N, ImageChannels, width, width>>
                  /\ net.bottom_width = DefaultBottomWidth
                        => out = <<N, ImageChannels, Resolution, Resolution>>
        /\ pc = "failed" => ~GenCallFits

C1_Witness ==
    /\ net.cls = "ResnetGenerator128"
    /\ net.bottom_width = DefaultBottomWidth
    /\ pc = "done"
    /\ N = MaxN
    /\ out = <<MaxN, 3, 128, 128>>

(* C2: in a generator forward the spatial width of the pipeline tensor is
   bottom_width after the reshape, doubles with every block, is
   bottom_width * 2^(number of upsampling blocks) after the last block (2^5 for the
   128 variant, 2^3 for the 32 variant) and is left as it is by the output head. *)
C2_WidthDoubles ==
    IsGenerator =>
        /\ pc = "blocks" =>
              /\ px[3] = net.bottom_width * ScaleFactor ^ UpCount(bi - 1)
              /\ px[4] = px[3]
              /\ UpCount(bi - 1) = bi - 1
        /\ pc = "ret" => /\ px[3] = ScaleFactor * block_input[3]
                         /\ px[4] = ScaleFactor * block_input[4]
        /\ pc = "final" =>
              /\ px[3] = net.bottom_width * ScaleFactor ^ UpCount(Len(net.blocks))
              /\ px[4] = px[3]
              /\ px[3] = net.bottom_width * (IF Is128 THEN 32 ELSE 8)
        /\ pc = "done" =>
              /\ out[3] = net.bottom_width * ScaleFactor ^ UpCount(Len(net.blocks))
              /\ out[4] = out[3]

C2_Witness ==
    /\ net.cls = "ResnetGenerator128"
    /\ pc = "final"
    /\ net.bottom_width = 3
    /\ px[3] = 96

(* C3: every block holds a skip convolution exactly when in_channels differs from
   out_channels or the block is flagged optimized; the skip convolution is a 1x1
   convolution from in_channels to out_channels; a forward call applies it exactly
   when it exists, so without it the skip path keeps the input's channels. *)
C3_SkipConvolution ==
    \A i \in 1..Len(net.blocks) :
        LET b == net.blocks[i]
        IN  /\ Present(b.s_conv) <=> (b.in_channels # b.out_channels \/ b.optimized)
            /\ Present(b.s_conv) =>
                  /\ b.s_conv.kind = "Conv2d"
                  /\ b.s_conv.cin = b.in_channels
                  /\ b.s_conv.cout = b.out_channels
                  /\ b.s_conv.k = 1
                  /\ b.s_conv.s = 1
                  /\ b.s_conv.p = 0
            /\ (pc = "ret" /\ i = bi) =>
                  /\ Applied("s_conv") <=> (b.in_channels # b.out_channels \/ b.optimized)
                  /\ ~Applied("s_conv") => x_r[2] = block_input[2]
                  /\ Applied("s_conv") => x_r[2] = b.out_channels

C3_Witness ==
    /\ net.cls \in {"Gblock", "Dblock"}
    /\ pc = "ret"
    /\ net.blocks[1].in_channels = net.blocks[1].out_channels
    /\ ~Present(net.blocks[1].s_conv)
    /\ x_r[2] = block_input[2]

\* an image batch of the variant's resolution, and no label or one the scoring head holds
DiscCallFits ==
    /\ input = <<N, ImageChannels, Resolution, Resolution>>
    /\ \/ y = NoLabel
       \/ /\ net.n_categories > 0
          /\ y.len = N
          /\ y.cls < net.n_categories

InBlock == pc \notin {"blocks", "activate", "sum", "l", "label", "done", "failed", "dense", "view", "final"}

(* C4: ResnetDiscriminator128.forward on images of shape (N, 3, 128, 128), and
   ResnetDiscriminator32.forward on (N, 3, 32, 32), without a label or with a label
   of shape (N,) of the classes the model was built for, never fails and returns a
   score of shape (N, 1): every block is handed its in_channels channels and a
   width it can halve, and the pooled features have the width of the scoring layer. *)
C4_ScoreShape ==
    (IsDiscriminator /\ DiscCallFits) =>
        /\ pc # "failed"
        /\ pc = "done" => out = <<N, 1>>
        /\ InBlock =>
              /\ block_input[2] = cur.in_channels
              /\ block_input[3] >= PoolFactor
              /\ block_input[3] % PoolFactor = 0
              /\ block_input[4] = block_input[3]
        /\ pc = "ret" => px = <<N, cur.out_channels, block_input[3] \div PoolFactor,
                                block_input[4] \div PoolFactor>>
        /\ pc = "l" => px = <<N, net.l.cin>>

C4_Witness ==
    /\ net.cls = "ResnetDiscriminator128"
    /\ DiscCallFits
    /\ y # NoLabel
    /\ pc = "done"
    /\ out = <<N, 1>>

(* C5: a discriminator built with n_categories = 0 holds no embedding layer, and no
   forward call on it with a label returns a score. *)
C5_LabelWithoutEmbedding ==
    (IsDiscriminator /\ net.n_categories = 0) =>
        /\ ~Present(net.l_y)
        /\ y # NoLabel => pc # "done"

C5_Witness ==
    /\ net.cls = "ResnetDiscriminator32"
    /\ net.n_categories = 0
    /\ y # NoLabel
    /\ pc = "failed"
    /\ err = "AttributeError"

\* the call's label matches the conditioning the model was built with
LabelMatches == (net.n_categories # 0) <=> (y # NoLabel)

(* C6, as stated: no forward call of a generator or a discriminator whose label does
   not match the configured conditioning returns a result. *)
C6_AsStated ==
    ((IsGenerator \/ IsDiscriminator) /\ pc = "done") => LabelMatches

(* C6, amended: a class-conditional generator called without a label fails, and an
   unconditional discriminator called with a label fails; an unconditional generator
   never fails for the label it is given (it ignores it), and a class-conditional
   discriminator never fails for a missing label (it returns the unconditional
   score of shape (N, 1)). *)
C6_MismatchOutcome ==
    /\ (IsGenerator /\ net.n_categories # 0 /\ y = NoLabel) =>
          pc \in {"dense", "view", "blocks", "g_bn1", "failed"}
    /\ (IsDiscriminator /\ net.n_categories = 0 /\ y # NoLabel) => pc # "done"
    /\ (IsGenerator /\ net.n_categories = 0) => err # "MissingConditioning"
    /\ (IsDiscriminator /\ y = NoLabel) =>
          /\ err \notin {"AttributeError", "IndexError"}
          /\ pc = "done" => out = <<N, 1>>

C6_Witness ==
    /\ IsGenerator
    /\ net.n_categories # 0
    /\ y = NoLabel
    /\ pc = "failed"
    /\ err = "MissingConditioning"

(* C7: whenever a block's forward call returns, the main-path tensor and the
   skip-path tensor it added had the same shape. *)
C7_NoBroadcast ==
    pc = "ret" => x = x_r

(* C8: the first block of a discriminator is a Dblock with in_channels = 3 whose
   conv1, conv2 and skip convolution are wrapped in SpectralNorm, every convolution
   of the pipeline is wrapped, and the first block's forward applies the skip
   convolution first, activates before conv1 and pools last. *)
C8_StemIsDblock ==
    IsDiscriminator =>
        /\ net.blocks[1].cls = "Dblock"
        /\ net.blocks[1].in_channels = ImageChannels
        /\ \A i \in 1..Len(net.blocks) :
              /\ net.blocks[i].conv1.sn
              /\ net.blocks[i].conv2.sn
              /\ Present(net.blocks[i].s_conv) => net.blocks[i].s_conv.sn
        /\ (pc = "ret" /\ bi = 1) =>
              trace = <<"s_conv", "activate", "conv1", "activate", "conv2", "avg_pool2d", "add">>

(* C9: every parameterized layer is initialised by xavier_uniform_: gain sqrt(2) for
   the two main convolutions of every block, gain 1 for every skip convolution, for
   the generator's dense layer and output convolution and for the discriminator's
   linear layer and embedding, in the 128 and the 32 variants. *)
C9_Initialised ==
    /\ \A i \in 1..Len(net.blocks) :
          /\ net.blocks[i].conv1.init = "xavier_sqrt2"
          /\ net.blocks[i].conv2.init = "xavier_sqrt2"
          /\ Present(net.blocks[i].s_conv) => net.blocks[i].s_conv.init = "xavier_1"
    /\ IsGenerator => /\ net.dense.init = "xavier_1"
                      /\ net.final_conv.init = "xavier_1"
    /\ IsDiscriminator => /\ net.l.init = "xavier_1"
                          /\ Present(net.l_y) => net.l_y.init = "xavier_1"

(* C10: when a Gblock's forward call reaches its sum, it has applied bn1, the
   activation, the resize (exactly when upsample is set, to both paths), conv1, bn2,
   the activation, conv2 and the skip convolution in this order, the skip path
   started from the block's input, and the two paths have the same spatial size and
   out_channels channels. *)
C10_PreActivationOrder ==
    (pc \in {"g_add", "ret"} /\ cur.cls = "Gblock") =>
        /\ trace \in
              { (<<"bn1", "activate">> \o r \o <<"conv1", "bn2", "activate", "conv2">> \o s \o a) :
                    r \in {IF cur.upsample THEN <<"up">> ELSE <<>>},
                    s \in {IF Present(cur.s_conv) THEN <<"s_conv">> ELSE <<>>},
                    a \in {IF pc = "ret" THEN <<"add">> ELSE <<>>} }
        /\ x[2] = cur.out_channels
        /\ x_r[2] = cur.out_channels
        /\ x[3] = x_r[3]
        /\ x[4] = x_r[4]

====
